---------------------------- MODULE Spec2Model ----------------------------
(***************************************************************************)
(* AegisClaim Engine: the classification -> extraction -> validation ->    *)
(* decision pipeline, as the Python sources execute it.                    *)
(*                                                                         *)
(* Two request handlers exist and both are modelled as one state machine   *)
(* whose initial state picks the handler that serves the request:          *)
(*   entry = "CP": ClaimProcessor.process_claim   (api/endpoints/claims.py)*)
(*   entry = "DP": DocumentProcessor.process_documents        (app/main.py)*)
(*                                                                         *)
(* Functions are also run on their own, each under a specification of its  *)
(* own: SpecParse (_parse_classification_response), SpecAgent (one         *)
(* agent.process call), SpecRules (_validate_claim, _make_decision),       *)
(* SpecDate (_parse_date), SpecResponse (the agents' response parsers) and *)
(* SpecClassify (classify_document).  SpecEndpoint is the /process-claim   *)
(* endpoint around ClaimProcessor.process_claim.                           *)
(*                                                                         *)
(* A Python dict is a function whose domain is the set of its keys; Null   *)
(* is the value None.  Money is counted in cents.  Strings that the code   *)
(* inspects character by character are sequences of one-character strings. *)
(***************************************************************************)
EXTENDS Integers, Sequences, FiniteSets, TLC

VARIABLES
    entry,        \* which handler serves the request: "CP" or "DP"
    files,        \* the uploaded files, in the caller's order: their extensions
    phase,        \* position of the handler coroutine
    taskPc,       \* position of each per-document task of the gather
    clsTrace,     \* what happened inside classify_document for each document
    classified,   \* DocumentType returned by classify_document (or NoType)
    taskResult,   \* value each gathered task finished with
    completion,   \* task ids in the order the tasks finished
    gathered,     \* the list asyncio.gather handed back to the handler
    procIdx,      \* loop position of ClaimProcessor._process_documents
    processed,    \* processed / processed_docs: the per-document outcomes
    agentTrace,   \* what happened inside agent.process for each document
    validation,   \* ClaimValidation / ValidationResult (or NoValue)
    decision,     \* ClaimDecision (or NoValue)
    response,     \* ProcessedClaim / ClaimResponse handed to the caller (or NoValue)
    raisedError,  \* exception that left the handler (or Null)
    label,        \* backend label handed to _parse_classification_response
    parsedType,   \* its result (or Pending)
    call,         \* one call of an extraction agent's process(): its inputs
    outcome,      \* what that call returned or raised (or NoValue)
    requiredOrder,\* the order in which the handler's required documents iterate
    vDocs,        \* a document list handed to _validate_claim / _make_decision
    vCalls,       \* the results of successive _validate_claim calls on vDocs
    dIn,          \* the ClaimValidation handed to _make_decision (or NoValue)
    dOut,         \* the ClaimDecision it returned (or NoValue)
    dateAgent,    \* the agent whose _parse_date is called (or NoType)
    dateIn,       \* the string handed to _parse_date (or NoValue)
    dateOut,      \* what _parse_date returned (or NoValue)
    respAgent,    \* the agent whose response parser is called (or NoType)
    respText,     \* the backend's answer handed to the parser
    respOut,      \* what the parser returned or raised (or NoValue)
    clsPc,        \* position of one classify_document call run on its own
    clsExt,       \* suffix of the file it is given
    clsTextLen,   \* length of the text _extract_text returned (-1: none)
    clsPromptLen, \* length of the text put into the prompt (-1: no prompt)
    clsExtractions,  \* how often _extract_text was called
    clsBackendCalls, \* how often _call_llm was called
    clsAnswer,    \* what the backend answered (or NoValue)
    clsResult,    \* the DocumentType returned (or NoType)
    epPc,         \* position of the /process-claim endpoint
    epTempDir,    \* the request's temporary directory: none, exists, removed
    epSaved,      \* how many uploaded files the endpoint has written
    epPath,       \* how the try block was left: return or except (or none)
    epStatus      \* HTTP status of the answer (0: not answered)

vars == << entry, files, phase, taskPc, clsTrace, classified, taskResult,
           completion, gathered, procIdx, processed, agentTrace, validation,
           decision, response, raisedError, label, parsedType, call, outcome,
           requiredOrder, vDocs, vCalls, dIn, dOut, dateAgent, dateIn, dateOut,
           respAgent, respText, respOut, clsPc, clsExt, clsTextLen, clsPromptLen,
           clsExtractions, clsBackendCalls, clsAnswer, clsResult,
           epPc, epTempDir, epSaved, epPath, epStatus >>

pipelineVars == << entry, files, phase, taskPc, clsTrace, classified,
                   taskResult, completion, gathered, procIdx, processed,
                   agentTrace, validation, decision, response, raisedError,
                   requiredOrder >>

parseVars == << label, parsedType >>

agentVars == << call, outcome >>

ruleVars == << vDocs, vCalls, dIn, dOut >>

dateVars == << dateAgent, dateIn, dateOut >>

\* the variables of the helper functions that are run on their own
respVars == << respAgent, respText, respOut >>

clsVars == << clsPc, clsExt, clsTextLen, clsPromptLen, clsExtractions,
             clsBackendCalls, clsAnswer, clsResult >>

epVars == << epPc, epTempDir, epSaved, epPath, epStatus >>

fnVars == << dateVars, respVars, clsVars, epVars >>

-----------------------------------------------------------------------------
(* Bounds of the model *)

MaxDocs == 2        \* documents per request

MaxLabelLen == 3    \* length of the enumerated backend labels

MaxRuleDocs == 3    \* documents in a list handed to the validator directly

MaxCalls == 2       \* successive calls of the validator on one list

MaxRespLen == 4     \* length of the enumerated backend answers

-----------------------------------------------------------------------------
(* Values *)

Absent  == "<absent>"     \* key not in the dict
Null    == "<None>"       \* Python None
NoType  == "<no type>"    \* a task that has not produced a DocumentType
Raised  == "<raised>"     \* classify_document left by an exception
Pending == "<pending>"

BILL              == "bill"
DISCHARGE_SUMMARY == "discharge_summary"
ID_CARD           == "id_card"
PRESCRIPTION      == "prescription"
LAB_REPORT        == "lab_report"
UNKNOWN           == "unknown"

DocumentType ==
    { BILL, DISCHARGE_SUMMARY, ID_CARD, PRESCRIPTION, LAB_REPORT, UNKNOWN }

-----------------------------------------------------------------------------
(* ClassifierAgent._parse_classification_response *)

Whitespace == { " ", "\t", "\n" }

\* str.lower(), on the ASCII letters
LowerChar(c) ==
    CASE c = "A" -> "a" [] c = "B" -> "b" [] c = "C" -> "c" [] c = "D" -> "d"
      [] c = "E" -> "e" [] c = "F" -> "f" [] c = "G" -> "g" [] c = "H" -> "h"
      [] c = "I" -> "i" [] c = "J" -> "j" [] c = "K" -> "k" [] c = "L" -> "l"
      [] c = "M" -> "m" [] c = "N" -> "n" [] c = "O" -> "o" [] c = "P" -> "p"
      [] c = "Q" -> "q" [] c = "R" -> "r" [] c = "S" -> "s" [] c = "T" -> "t"
      [] c = "U" -> "u" [] c = "V" -> "v" [] c = "W" -> "w" [] c = "X" -> "x"
      [] c = "Y" -> "y" [] c = "Z" -> "z" [] OTHER -> c

Lower(s) == [ i \in 1..Len(s) |-> LowerChar(s[i]) ]

SetMin(S) == CHOOSE x \in S : \A y \in S : x <= y
SetMax(S) == CHOOSE x \in S : \A y \in S : x >= y

\* a plausible slip: the response is not trimmed
Strip_Missing(s) == s

\* str.strip(): drops the leading and the trailing whitespace
Strip(s) ==
    LET keep == { i \in 1..Len(s) : s[i] \notin Whitespace }
    IN  IF keep = {} THEN << >> ELSE SubSeq(s, SetMin(keep), SetMax(keep))

S_bill              == << "b","i","l","l" >>
S_discharge         == << "d","i","s","c","h","a","r","g","e" >>
S_discharge_summary == S_discharge \o << "_" >> \o << "s","u","m","m","a","r","y" >>
S_discharge_sp_summary == S_discharge \o << " " >> \o << "s","u","m","m","a","r","y" >>
S_id                == << "i","d" >>
S_id_card           == << "i","d","_","c","a","r","d" >>
S_id_sp_card        == << "i","d"," ","c","a","r","d" >>
S_insurance_card    == << "i","n","s","u","r","a","n","c","e"," ","c","a","r","d" >>
S_prescription      == << "p","r","e","s","c","r","i","p","t","i","o","n" >>
S_lab               == << "l","a","b" >>
S_lab_report        == << "l","a","b","_","r","e","p","o","r","t" >>
S_lab_sp_report     == << "l","a","b"," ","r","e","p","o","r","t" >>
S_test_results      == << "t","e","s","t"," ","r","e","s","u","l","t","s" >>
S_unknown           == << "u","n","k","n","o","w","n" >>
S_invalid           == << "i","n","v","a","l","i","d" >>

\* the synonym table of _parse_classification_response
type_mapping ==
       (S_bill                 :> BILL)
    @@ (S_discharge            :> DISCHARGE_SUMMARY)
    @@ (S_discharge_sp_summary :> DISCHARGE_SUMMARY)
    @@ (S_discharge_summary    :> DISCHARGE_SUMMARY)
    @@ (S_id                   :> ID_CARD)
    @@ (S_id_sp_card           :> ID_CARD)
    @@ (S_id_card              :> ID_CARD)
    @@ (S_insurance_card       :> ID_CARD)
    @@ (S_prescription         :> PRESCRIPTION)
    @@ (S_lab                  :> LAB_REPORT)
    @@ (S_lab_sp_report        :> LAB_REPORT)
    @@ (S_lab_report           :> LAB_REPORT)
    @@ (S_test_results         :> LAB_REPORT)

\* type_mapping.get(response.strip().lower(), DocumentType.UNKNOWN)
ParseClassificationResponse(resp) ==
    LET doc_type == Lower(Strip(resp))
    IN  IF doc_type \in DOMAIN type_mapping
          THEN type_mapping[doc_type]
          ELSE UNKNOWN

-----------------------------------------------------------------------------
(* Python values *)

EmptyDict == [ k \in {} |-> Null ]

\* k in d
HasKey(d, k) == k \in DOMAIN d

\* a.update(b): the keys of b are added to a, and override it
DictUpdate(a, b) ==
    [ k \in DOMAIN a \cup DOMAIN b |-> IF k \in DOMAIN b THEN b[k] ELSE a[k] ]

\* a dict with the one key k, or the empty dict when the value is Absent
StrItem(k, v) == IF v = Absent THEN EmptyDict ELSE (k :> v)

\* outcomes of a call
Return(v) == [ status |-> "ok", value |-> v ]
Raise(e)  == [ status |-> "raise", error |-> e ]

NoValue == [ kind |-> "pending" ]

-----------------------------------------------------------------------------
(* The uploaded files and the external collaborators *)

\* suffix of the stored file: a PDF, a text file (.txt/.md/.csv), anything else
Ext == { "pdf", "txt", "bin" }

\* BaseAgent._extract_text: PyPDF2 for .pdf, open() for text, AgentError otherwise
TextExtractionOutcomes(ext) ==
    IF ext \in { "pdf", "txt" } THEN { "ok", "error" } ELSE { "error" }

\* what the classification backend may answer: a label, or a failure
BackendLabels ==
    { S_bill, << " ","B","I","L","L","\n" >>, S_discharge_sp_summary, S_id_card,
      S_prescription, S_lab_report, S_unknown, S_invalid }

ClassifierLlmOutcomes ==
    { [ kind |-> "error" ] } \cup { [ kind |-> "text", text |-> l ] : l \in BackendLabels }

\* BillAgent._extract_text_from_pdf (PyMuPDF, OCR): text, no text, or an exception
PdfTextOutcomes == { "text", "empty", "error" }

PatientNames == { "John Doe", "Jon Doe" }
IsoDate      == "2024-04-10"       \* a date _parse_date normalised
RawDate      == "99-99-2024"       \* matched by the pattern, rejected by every format
HospitalName == "General Hospital"

\* amounts in cents; no match is written -1 in the enumeration only
RegexAmounts == { 0, 250000, 1000000, 1000001 }

AmountItem(a) == IF a < 0 THEN EmptyDict ELSE ("total_amount" :> a)

\* BillAgent._extract_with_regex: every dict the pattern battery can produce
BillRegexResults ==
    { StrItem("hospital_name", h) @@ AmountItem(a) @@ StrItem("date_of_service", d)
        @@ StrItem("patient_name", p) :
        h \in { Absent, HospitalName },
        a \in RegexAmounts \cup { -1 },
        d \in { Absent, IsoDate, RawDate },
        p \in PatientNames \cup { Absent } }

\* parsed JSON objects the extraction backend may answer with
BillLlmDicts ==
    { StrItem("hospital_name", h) @@ AmountItem(a) @@ StrItem("date_of_service", d) :
        h \in { Absent, "X" }, a \in { -1, 15000 }, d \in { Absent, IsoDate } }

LlmOutcomes ==
    { [ kind |-> "error" ], [ kind |-> "garbage" ] }
      \cup { [ kind |-> "json", data |-> d ] : d \in BillLlmDicts }

NoLlm == [ kind |-> "not called" ]

-----------------------------------------------------------------------------
(* Output schemas, app/schemas/claim.py *)

ModelOf(t) ==
    CASE t = BILL -> "BillDocument"
      [] t = DISCHARGE_SUMMARY -> "DischargeSummaryDocument"
      [] t = ID_CARD -> "IdCardDocument"
      [] t = PRESCRIPTION -> "PrescriptionDocument"
      [] t = LAB_REPORT -> "LabReportDocument"
      [] OTHER -> "none"

\* the fields declared Field(...): the constructor fails without them
SchemaRequired(t) ==
    CASE t = BILL -> { "hospital_name", "total_amount", "date_of_service" }
      [] t = DISCHARGE_SUMMARY ->
             { "patient_name", "admission_date", "discharge_date", "diagnosis" }
      [] t = ID_CARD ->
             { "insurance_provider", "policy_number", "member_id", "member_name" }
      [] t = PRESCRIPTION -> { "patient_name", "date_prescribed", "medications" }
      [] t = LAB_REPORT ->
             { "patient_name", "date_collected", "date_reported", "test_results" }
      [] OTHER -> {}

\* the fields with a default, and the default
SchemaDefaults(t) ==
    CASE t = BILL -> [ patient_name |-> Null, patient_id |-> Null ]
      [] OTHER -> EmptyDict

DateFields == { "date_of_service", "admission_date", "discharge_date",
                "date_prescribed", "date_collected", "date_reported" }

\* Optional[...] fields take None
NullableFields == { "hospital_name" }

\* pydantic's check of one given value against the field's annotation
FieldValueOk(k, v) ==
    CASE k = "total_amount" -> v > 0              \* float, gt=0
      [] k \in DateFields -> v = IsoDate          \* date: an ISO date string
      [] k \in NullableFields -> TRUE
      [] OTHER -> v # Null                        \* str, List[dict]

\* output_model(**data): the instance (its field values), or ValidationError
ModelInit(t, data) ==
    IF /\ \A k \in SchemaRequired(t) : HasKey(data, k)
       /\ \A k \in DOMAIN data : k \in SchemaRequired(t) => FieldValueOk(k, data[k])
      THEN Return([ k \in SchemaRequired(t) \cup DOMAIN SchemaDefaults(t) \cup { "type" } |->
                      IF k = "type" THEN t
                      ELSE IF HasKey(data, k) THEN data[k]
                      ELSE SchemaDefaults(t)[k] ])
      ELSE Raise("ValidationError")

\* ClaimDocument.parse_obj(d): the first member of the union that validates
ClaimDocumentParse(d) ==
    LET fits == { t \in DocumentType \ { UNKNOWN } :
                    /\ HasKey(d, "type") => d["type"] = t
                    /\ ModelInit(t, d).status = "ok" }
    IN  IF fits = {} THEN Raise("ValidationError")
        ELSE LET t == CHOOSE t \in fits : TRUE
             IN  Return([ wrapper |-> "ClaimDocument", root |-> ModelInit(t, d).value ])

-----------------------------------------------------------------------------
(* Extraction agents, app/services/agents *)

BaseExtractionAgentMethods == { "extract", "validate", "process" }

\* the methods an extraction agent has: its own and BaseExtractionAgent's.
\* No extraction agent derives from BaseAgent, which defines _call_llm.
AgentMethods(t) ==
    BaseExtractionAgentMethods \cup
    { "_extract_with_regex", "_extract_with_llm", "_create_extraction_prompt",
      "_parse_date" } \cup
    CASE t = BILL -> { "_extract_text_from_pdf", "_parse_llm_response" }
      [] t = DISCHARGE_SUMMARY -> { "_parse_extraction_response" }
      [] OTHER -> {}

\* the keys each extract() insists on after the merge
ExtractRequired(t) ==
    CASE t = BILL -> { "total_amount", "date_of_service" }
      [] t = DISCHARGE_SUMMARY ->
             { "patient_name", "diagnosis", "admission_date", "discharge_date" }
      [] t = ID_CARD ->
             { "insurance_provider", "policy_number", "member_id", "member_name" }
      [] t = PRESCRIPTION -> { "patient_name", "date_prescribed", "medications" }
      [] t = LAB_REPORT -> { "patient_name", "test_results", "date_collected" }
      [] OTHER -> {}

AllRequired(t, d) == \A k \in ExtractRequired(t) : HasKey(d, k)

\* BillAgent.extract: the LLM pass runs unless the patterns found both fields
BillNeedsLlm(det) == ~ AllRequired(BILL, det)

\* the response parser of each agent, applied to the backend's text
ParseLlmResponse(t, llm) ==
    CASE t = BILL ->
           IF llm.kind = "json" THEN Return(llm.data) ELSE Return(EmptyDict)
      [] t = DISCHARGE_SUMMARY ->
           IF llm.kind = "json"
             THEN Return(llm.data @@ [ patient_name |-> Null, diagnosis |-> Null ])
             ELSE Raise("AgentError")
      [] OTHER -> Raise("AttributeError")      \* no _parse_llm_response

\* _extract_with_llm: self._call_llm(prompt, ...) and the parse of its answer
ExtractWithLlm(t, llm) ==
    IF "_call_llm" \notin AgentMethods(t) THEN Raise("AttributeError")
    ELSE IF llm.kind = "error" THEN Raise("BackendError")
    ELSE ParseLlmResponse(t, llm)

\* LabReportAgent.extract: date_reported defaults to today
LabDefault(t, extracted) ==
    IF t = LAB_REPORT /\ ~ HasKey(extracted, "date_reported")
      THEN extracted @@ ("date_reported" :> IsoDate)
      ELSE extracted

\* the steps every extract() shares once it holds the text: the LLM pass where
\* it is due, the merge, the check of the required keys
MergeAndCheck(t, det, llm, needsLlm) ==
    IF ~ needsLlm THEN Return(det)
    ELSE LET r == ExtractWithLlm(t, llm)
         IN  IF r.status = "raise" THEN r
             ELSE LET extracted == DictUpdate(det, r.value)
                  IN  IF AllRequired(t, extracted)
                        THEN Return(LabDefault(t, extracted))
                        ELSE Raise("ValueError")

\* the argument process() hands to extract() as `text`: both handlers pass the
\* file's Path; the signature asks for the text
ArgKinds == { "path", "text" }

\* BillAgent.extract(text, None)
BillExtract(arg, ext, pdf, det, llm) ==
    IF arg = "text" THEN MergeAndCheck(BILL, det, llm, BillNeedsLlm(det))
    ELSE IF ext # "pdf" THEN Raise("TypeError")       \* text[:500] of a Path
    ELSE IF pdf = "error" THEN Raise("PdfError")
    ELSE IF pdf = "empty" THEN Raise("ValueError")    \* no text content
    ELSE MergeAndCheck(BILL, det, llm, BillNeedsLlm(det))

\* the other agents' extract(text, None): the patterns run on the argument
\* itself, then the LLM pass runs unconditionally
OtherExtract(t, arg, det, llm) ==
    IF arg = "path"
      THEN IF t = ID_CARD THEN Raise("AttributeError")     \* text.lower()
           ELSE Raise("TypeError")                         \* re.findall(p, text)
      ELSE MergeAndCheck(t, det, llm, TRUE)

Extract(t, arg, ext, pdf, det, llm) ==
    IF t = BILL THEN BillExtract(arg, ext, pdf, det, llm)
    ELSE OtherExtract(t, arg, det, llm)

\* whether this extract() holds the document's text and runs its patterns
RegexRuns(t, arg, ext, pdf) ==
    \/ arg = "text"
    \/ t = BILL /\ ext = "pdf" /\ pdf = "text"

\* whether this extract() enters its fallback pass
FallbackEntered(t, arg, ext, pdf, det) ==
    /\ RegexRuns(t, arg, ext, pdf)
    /\ t = BILL => BillNeedsLlm(det)

\* how often this extract() reaches the backend: once when its fallback pass
\* runs and the agent has a _call_llm to call
BackendCalls(t, arg, ext, pdf, det) ==
    IF FallbackEntered(t, arg, ext, pdf, det) /\ "_call_llm" \in AgentMethods(t)
      THEN 1 ELSE 0

\* a plausible slip: process() hands back whatever the patterns found
AgentProcess_Unchecked(t, arg, ext, pdf, det, llm) ==
    IF RegexRuns(t, arg, ext, pdf)
      THEN Return(("type" :> t) @@ det @@ SchemaDefaults(t))
      ELSE Extract(t, arg, ext, pdf, det, llm)

\* BaseExtractionAgent.process: extract, then validate against the output model
AgentProcess(t, arg, ext, pdf, det, llm) ==
    LET extracted == Extract(t, arg, ext, pdf, det, llm)
    IN  IF extracted.status = "raise" THEN extracted
        ELSE ModelInit(t, extracted.value)

\* what the patterns of the other agents can find: any of the required keys;
\* the prescription and lab-report batteries always start from an empty list
OtherRegexResults(t) ==
    LET always == CASE t = PRESCRIPTION -> { "medications" }
                    [] t = LAB_REPORT -> { "test_results" }
                    [] OTHER -> {}
    IN  { [ k \in K \cup always |->
              IF k \in always THEN "[]" ELSE IF k \in DateFields THEN IsoDate ELSE "v" ] :
          K \in SUBSET ExtractRequired(t) }

\* the environment's choices for one call of agent.process
PdfChoices(t, arg, ext) ==
    IF t = BILL /\ arg = "path" /\ ext = "pdf" THEN PdfTextOutcomes ELSE { "none" }

RegexChoices(t, arg, ext, pdf) ==
    IF ~ RegexRuns(t, arg, ext, pdf) THEN { EmptyDict }
    ELSE IF t = BILL THEN BillRegexResults
    ELSE OtherRegexResults(t)

\* what the backend would answer if it were asked
BackendChoices(t, arg, ext, pdf, det) ==
    IF FallbackEntered(t, arg, ext, pdf, det) THEN LlmOutcomes ELSE { NoLlm }

-----------------------------------------------------------------------------
(* ClassifierAgent.classify_document and the per-document tasks *)

\* a plausible slip: the handler lets the exception through
ClassifyHandler_Reraise(e) == Raise(e)

\* except Exception as e: ... return DocumentType.UNKNOWN
ClassifyHandler(e) == Return(UNKNOWN)

\* classify_document up to its first await: the text extraction
ClassifyText(textOutcome) ==
    IF textOutcome = "error" THEN ClassifyHandler("AgentError") ELSE NoValue

\* classify_document from the backend's answer on
ClassifyResponse(llmOutcome) ==
    IF llmOutcome.kind = "error" THEN ClassifyHandler("BackendError")
    ELSE Return(ParseClassificationResponse(llmOutcome.text))

\* ClaimProcessor._classify_single_doc: (file_path, doc_type), UNKNOWN on error
ClassifySingleDoc(r) ==
    [ kind |-> "type", type |-> IF r.status = "raise" THEN UNKNOWN ELSE r.value ]

\* whether DocumentProcessor._process_single_file calls an agent for this type
DPAgentFor(r) == r.status = "ok" /\ r.value \in { BILL, DISCHARGE_SUMMARY }

\* DocumentProcessor._process_single_file after the classification: a document,
\* None, or an exception (raise AgentError(...) names a class the module never
\* imports, so the exception that leaves the task is a NameError)
ProcessSingleFile(r, ext, pdf, det, llm) ==
    IF r.status = "raise" THEN [ kind |-> "exception", error |-> "NameError" ]
    ELSE IF DPAgentFor(r)
      THEN LET a == AgentProcess(r.value, "path", ext, pdf, det, llm)
           IN  IF a.status = "ok"
                 THEN [ kind |-> "doc",
                        doc |-> [ wrapper |-> ModelOf(r.value), root |-> a.value ] ]
                 ELSE [ kind |-> "exception", error |-> "NameError" ]
      ELSE [ kind |-> "None" ]

\* what the backend answers when an agent does call it
ActualLlmChoices(t, arg, ext, pdf, det) ==
    IF FallbackEntered(t, arg, ext, pdf, det) /\ "_call_llm" \in AgentMethods(t)
      THEN LlmOutcomes ELSE { NoLlm }

AgentTrace(t, ext, pdf, det, a) ==
    [ kind |-> "ran", type |-> t, fallback |-> FallbackEntered(t, "path", ext, pdf, det),
      status |-> a.status ]

Docs == DOMAIN files

TaskIds == { i \in Docs : taskPc[i] # "none" }

\* a task finishes: with its classification r, and in DocumentProcessor with
\* the rest of _process_single_file, which runs without suspending
FinishTask(i, r, trace) ==
    LET t == IF r.status = "ok" THEN r.value ELSE UNKNOWN
        called == entry = "DP" /\ DPAgentFor(r)
    IN  \E pdf \in IF called THEN PdfChoices(t, "path", files[i]) ELSE { "none" } :
        \E det \in IF called THEN RegexChoices(t, "path", files[i], pdf) ELSE { EmptyDict } :
        \E llm \in IF called THEN ActualLlmChoices(t, "path", files[i], pdf, det)
                   ELSE { NoLlm } :
          /\ taskPc' = [ taskPc EXCEPT ![i] = "done" ]
          /\ clsTrace' = [ clsTrace EXCEPT ![i] = trace ]
          /\ classified' = [ classified EXCEPT
                               ![i] = IF r.status = "ok" THEN r.value ELSE Raised ]
          /\ taskResult' = [ taskResult EXCEPT
                               ![i] = IF entry = "CP" THEN ClassifySingleDoc(r)
                                      ELSE ProcessSingleFile(r, files[i], pdf, det, llm) ]
          /\ agentTrace' = [ agentTrace EXCEPT
                               ![i] = IF called
                                        THEN AgentTrace(t, files[i], pdf, det,
                                               AgentProcess(t, "path", files[i], pdf, det, llm))
                                        ELSE @ ]
          /\ completion' = Append(completion, i)

\* ClaimProcessor.process_claim starts: one _classify_single_doc per file
StartClassify ==
    /\ phase = "start" /\ entry = "CP"
    /\ taskPc' = [ i \in Docs |-> "ready" ]
    /\ phase' = "gather"
    /\ UNCHANGED << entry, files, clsTrace, classified, taskResult, completion,
                    gathered, procIdx, processed, agentTrace, validation, decision,
                    response, raisedError, parseVars, agentVars, ruleVars, fnVars,
                    requiredOrder >>

\* settings.ALLOWED_EXTENSIONS
AllowedExtensions == { "pdf" }

\* DocumentProcessor._save_uploaded_files: the files of an allowed extension
\* that could be written; no file at all is a ValueError
SaveUploadedFiles(saved) ==
    /\ phase = "start" /\ entry = "DP"
    /\ saved \subseteq { i \in Docs : files[i] \in AllowedExtensions }
    /\ IF saved = {}
         THEN /\ phase' = "raised"
              /\ raisedError' = "ValueError"
              /\ UNCHANGED taskPc
         ELSE /\ phase' = "gather"
              /\ taskPc' = [ i \in Docs |-> IF i \in saved THEN "ready" ELSE "none" ]
              /\ UNCHANGED raisedError
    /\ UNCHANGED << entry, files, clsTrace, classified, taskResult, completion,
                    gathered, procIdx, processed, agentTrace, validation, decision,
                    response, parseVars, agentVars, ruleVars, fnVars,
                    requiredOrder >>

\* a task runs from its start to its first suspension: the text extraction of
\* classify_document.  The event loop starts the tasks in the order of the list.
TaskExtractText(i, textOutcome) ==
    /\ taskPc[i] = "ready"
    /\ \A j \in Docs : j < i => taskPc[j] # "ready"
    /\ textOutcome \in TextExtractionOutcomes(files[i])
    /\ LET r == ClassifyText(textOutcome)
       IN  IF r = NoValue
             THEN /\ taskPc' = [ taskPc EXCEPT ![i] = "llm" ]
                  /\ clsTrace' = [ clsTrace EXCEPT ![i] = "text ok" ]
                  /\ UNCHANGED << classified, taskResult, agentTrace, completion >>
             ELSE FinishTask(i, r, "text failed")
    /\ UNCHANGED << entry, files, phase, gathered, procIdx, processed, validation,
                    decision, response, raisedError, parseVars, agentVars, ruleVars, fnVars,
                    requiredOrder >>

\* the classification backend answers (or fails) and the task runs to its end
TaskLlmReturn(i, llmOutcome) ==
    /\ taskPc[i] = "llm"
    /\ llmOutcome \in ClassifierLlmOutcomes
    /\ FinishTask(i, ClassifyResponse(llmOutcome),
                  IF llmOutcome.kind = "error" THEN "llm failed" ELSE "parsed")
    /\ UNCHANGED << entry, files, phase, gathered, procIdx, processed, validation,
                    decision, response, raisedError, parseVars, agentVars, ruleVars, fnVars,
                    requiredOrder >>

-----------------------------------------------------------------------------
(* asyncio.gather *)

\* the k-th smallest element of a set of integers
Kth(S, k) == CHOOSE x \in S : Cardinality({ y \in S : y < x }) = k - 1

\* a plausible slip: asyncio.wait(..., return_when=FIRST_COMPLETED)
GatherReady_FirstCompleted(ids, pcs) == \E i \in ids : pcs[i] = "done"

\* gather resumes its awaiter when every awaitable has finished
GatherReady(ids, pcs) == \A i \in ids : pcs[i] = "done"

\* a plausible slip: the results in the order the tasks finished
\* (asyncio.as_completed)
GatherList_AsCompleted(ids, results, finished) ==
    [ k \in 1..Len(finished) |-> [ src |-> finished[k], result |-> results[finished[k]] ] ]

\* the result list of gather: one entry per awaitable, in the order of the
\* awaitables, whatever the order they finished in
GatherList(ids, results, finished) ==
    [ k \in 1..Cardinality(ids) |-> [ src |-> Kth(ids, k), result |-> results[Kth(ids, k)] ] ]

\* a plausible slip: DocumentProcessor gathers without return_exceptions
ReturnExceptions_Off(e) == FALSE

\* claim_processor.py:99 gathers with the default (False),
\* document_processor.py:74 with return_exceptions=True
ReturnExceptions(e) == e = "DP"

\* the await on gather ends: with the first exception of a task when exceptions
\* are not collected, otherwise with the full list once every task is done
Gather ==
    /\ phase = "gather"
    /\ LET failed == { k \in 1..Len(completion) :
                         taskResult[completion[k]].kind = "exception" }
       IN  IF ~ ReturnExceptions(entry) /\ failed # {}
             THEN /\ phase' = "raised"
                  /\ raisedError' = taskResult[completion[SetMin(failed)]].error
                  /\ UNCHANGED << gathered, procIdx >>
             ELSE /\ GatherReady(TaskIds, taskPc)
                  /\ gathered' = GatherList(TaskIds, taskResult, completion)
                  /\ phase' = IF entry = "CP" THEN "process" ELSE "collect"
                  /\ procIdx' = 1
                  /\ UNCHANGED raisedError
    /\ UNCHANGED << entry, files, taskPc, clsTrace, classified, taskResult, completion,
                    processed, agentTrace, validation, decision, response,
                    parseVars, agentVars, ruleVars, fnVars,
                    requiredOrder >>

-----------------------------------------------------------------------------
(* ClaimProcessor._process_documents *)

\* self.agents
Agents == { BILL, DISCHARGE_SUMMARY, ID_CARD, PRESCRIPTION, LAB_REPORT }

\* result.dict() plus the file metadata
ResultDict(model, i) == model @@ [ file_name |-> i, file_size |-> 0 ]

\* the "minimal document with error information" of the except branch
ErrorDict(t, i, e) == [ type |-> t, file_name |-> i, error |-> e, status |-> "error" ]

\* the except branch: parse the error dictionary as a ClaimDocument
ProcessHandler(t, i, e) == ClaimDocumentParse(ErrorDict(t, i, e))

\* the body of the loop for one classified document whose agent answered a
TryProcess(t, i, a) ==
    LET tried == IF a.status = "ok" THEN ClaimDocumentParse(ResultDict(a.value, i)) ELSE a
    IN  IF tried.status = "ok" THEN tried ELSE ProcessHandler(t, i, tried.error)

\* the type of one entry of classified_docs
TypeOfEntry(item) == IF item.result.kind = "type" THEN item.result.type ELSE UNKNOWN

\* a plausible slip: the table hands discharge summaries to the bill agent
AgentOf_Misfiled(t) == IF t = DISCHARGE_SUMMARY THEN BILL ELSE t

\* self.agents.get(doc_type): each type is served by the agent of that type
AgentOf(t) == t

\* a plausible slip: every classified document is handed to an agent
SkipsDocument_Never(t) == FALSE

\* if doc_type == DocumentType.UNKNOWN: continue / if not agent: continue
SkipsDocument(t) == t = UNKNOWN \/ t \notin Agents

\* one iteration of the loop: skip an UNKNOWN document, otherwise run the agent
\* and append the parsed document; an exception that leaves the except branch
\* leaves _process_documents and process_claim
ProcessDocument ==
    /\ phase = "process" /\ procIdx <= Len(gathered)
    /\ LET item == gathered[procIdx]
           i == item.src
           t == TypeOfEntry(item)
       IN  IF SkipsDocument(t)
             THEN /\ procIdx' = procIdx + 1
                  /\ UNCHANGED << processed, agentTrace, phase, raisedError >>
             ELSE \E pdf \in PdfChoices(AgentOf(t), "path", files[i]) :
                  \E det \in RegexChoices(AgentOf(t), "path", files[i], pdf) :
                  \E llm \in ActualLlmChoices(AgentOf(t), "path", files[i], pdf, det) :
                    LET a == AgentProcess(AgentOf(t), "path", files[i], pdf, det, llm)
                        r == TryProcess(t, i, a)
                    IN  /\ agentTrace' = [ agentTrace EXCEPT
                                             ![i] = AgentTrace(AgentOf(t), files[i], pdf, det, a) ]
                        /\ IF r.status = "ok"
                             THEN /\ processed' = Append(processed, [ src |-> i, doc |-> r.value ])
                                  /\ procIdx' = procIdx + 1
                                  /\ UNCHANGED << phase, raisedError >>
                             ELSE /\ phase' = "raised"
                                  /\ raisedError' = r.error
                                  /\ UNCHANGED << processed, procIdx >>
    /\ UNCHANGED << entry, files, taskPc, clsTrace, classified, taskResult, completion,
                    gathered, validation, decision, response, parseVars, agentVars, ruleVars, fnVars,
                    requiredOrder >>

\* the loop is over: return processed
ProcessReturn ==
    /\ phase = "process" /\ procIdx > Len(gathered)
    /\ phase' = "validate"
    /\ UNCHANGED << entry, files, taskPc, clsTrace, classified, taskResult, completion,
                    gathered, procIdx, processed, agentTrace, validation, decision,
                    response, raisedError, parseVars, agentVars, ruleVars, fnVars,
                    requiredOrder >>

\* DocumentProcessor.process_documents: keep the results that are neither an
\* exception nor None
Collect ==
    /\ phase = "collect"
    /\ processed' = LET kept == SelectSeq(gathered, LAMBDA g : g.result.kind = "doc")
                    IN  [ k \in 1..Len(kept) |-> [ src |-> kept[k].src,
                                                   doc |-> kept[k].result.doc ] ]
    /\ phase' = "validate"
    /\ UNCHANGED << entry, files, taskPc, clsTrace, classified, taskResult, completion,
                    gathered, procIdx, agentTrace, validation, decision, response,
                    raisedError, parseVars, agentVars, ruleVars, fnVars,
                    requiredOrder >>

-----------------------------------------------------------------------------
(* validation and decision *)

\* hasattr(doc, a): a ClaimDocument is a RootModel, its only field is root;
\* the documents of DocumentProcessor are the agents' models themselves
HasAttr(doc, a) ==
    IF doc.wrapper = "ClaimDocument" THEN a = "root" ELSE a \in DOMAIN doc.root

GetAttr(doc, a) == doc.root[a]

Truthy(v) == v \notin { Null, "" }

DocsOf(entries) == [ k \in 1..Len(entries) |-> entries[k].doc ]

\* ClaimProcessor.required_docs is a set: its iteration order is not fixed by
\* the source, it depends on the hashes of the process
RequiredOrders == { << BILL, ID_CARD >>, << ID_CARD, BILL >> }

\* a plausible slip: the set is rebuilt between calls and iterates differently
IterationOrder_Rebuilt(order, n) ==
    IF n % 2 = 1 THEN order ELSE [ k \in 1..Len(order) |-> order[Len(order) + 1 - k] ]

\* for doc_type in self.required_docs, at the n-th call: the set is built once
\* in __init__ and never modified, so every call iterates it in the same order
IterationOrder(order, n) == order

\* ClaimProcessor.doc_descriptions
doc_descriptions ==
    (BILL :> "medical bill") @@ (DISCHARGE_SUMMARY :> "discharge summary")
    @@ (ID_CARD :> "insurance ID card") @@ (PRESCRIPTION :> "prescription")
    @@ (LAB_REPORT :> "lab report")

Describe(t) == IF t \in DOMAIN doc_descriptions THEN doc_descriptions[t] ELSE t

\* the patient_names dictionary of _validate_claim: a later document of the
\* same description overwrites an earlier one
PatientNamesDict(documents) ==
    LET named == { k \in 1..Len(documents) :
                     /\ HasAttr(documents[k], "patient_name")
                     /\ Truthy(GetAttr(documents[k], "patient_name")) }
        key(k) == Describe(GetAttr(documents[k], "type"))
    IN  [ d \in { key(k) : k \in named } |->
            GetAttr(documents[SetMax({ k \in named : key(k) = d })], "patient_name") ]

\* a plausible slip: the discrepancies are left out of the verdict
IsValid_MissingOnly(missing_docs, discrepancies) == Len(missing_docs) = 0

\* is_valid=len(missing_docs) == 0 and len(discrepancies) == 0
IsValid(missing_docs, discrepancies) == Len(missing_docs) = 0 /\ Len(discrepancies) = 0

\* ClaimProcessor._validate_claim
ValidateClaim(documents, order) ==
    LET found_types == { GetAttr(documents[k], "type") :
                           k \in { j \in 1..Len(documents) : HasAttr(documents[j], "type") } }
        missing == SelectSeq(order, LAMBDA t : t \notin found_types)
        missing_docs == [ k \in 1..Len(missing) |-> Describe(missing[k]) ]
        patient_names == PatientNamesDict(documents)
        discrepancies ==
            IF Len(documents) > 1
               /\ Cardinality({ patient_names[d] : d \in DOMAIN patient_names }) > 1
              THEN << [ field |-> "patient_name",
                        message |-> "Patient name mismatch across documents",
                        details |-> patient_names ] >>
              ELSE << >>
    IN  Return([ missing_documents |-> missing_docs,
                 discrepancies |-> discrepancies,
                 is_valid |-> IsValid(missing_docs, discrepancies) ])

RECURSIVE CalculateTotalAmount(_)
\* ClaimProcessor._calculate_total_amount, in cents
CalculateTotalAmount(documents) ==
    IF documents = << >> THEN 0
    ELSE LET doc == Head(documents)
         IN  (IF HasAttr(doc, "total_amount") THEN GetAttr(doc, "total_amount") ELSE 0)
             + CalculateTotalAmount(Tail(documents))

\* the automatic approval limit of _make_decision, 10000.0, in cents
AutoApproveLimit == 1000000

\* a plausible slip: the discrepancies do not hold the claim back
HasDiscrepancies_Ignored(v) == FALSE

\* if validation.discrepancies:
HasDiscrepancies(v) == v.discrepancies # << >>

\* ClaimProcessor._make_decision
MakeDecision(documents, v) ==
    IF v.missing_documents # << >>
      THEN [ status |-> "rejected", reason |-> "Missing required documents",
             listed |-> v.missing_documents,
             amount_approved |-> 0, amount_rejected |-> CalculateTotalAmount(documents) ]
    ELSE IF HasDiscrepancies(v)
      THEN [ status |-> "pending",
             reason |-> "Data discrepancies found, requires manual review",
             listed |-> << >>, amount_approved |-> 0, amount_rejected |-> 0 ]
    ELSE IF CalculateTotalAmount(documents) <= AutoApproveLimit
      THEN [ status |-> "approved", reason |-> "Claim meets all requirements",
             listed |-> << >>,
             amount_approved |-> CalculateTotalAmount(documents), amount_rejected |-> 0 ]
      ELSE [ status |-> "pending",
             reason |-> "Claim amount exceeds automatic approval limit",
             listed |-> << >>, amount_approved |-> 0, amount_rejected |-> 0 ]

\* the documents DocumentProcessor._validate_claim asks for, in its order
DPRequired == << BILL, DISCHARGE_SUMMARY, ID_CARD >>

\* DocumentProcessor._validate_claim with _cross_validate_documents;
\* ValidationResult.errors is a List[str], so the None passed for an empty
\* list fails the constructor
DPValidateClaim(documents) ==
    LET doc_types == { GetAttr(documents[k], "type") : k \in 1..Len(documents) }
        missing_docs == SelectSeq(DPRequired, LAMBDA t : t \notin doc_types)
        patient_names == { GetAttr(documents[k], "patient_name") :
                             k \in { j \in 1..Len(documents) :
                                       /\ HasAttr(documents[j], "patient_name")
                                       /\ Truthy(GetAttr(documents[j], "patient_name")) } }
        errors == (IF missing_docs # << >>
                     THEN << [ text |-> "Missing required documents",
                               listed |-> missing_docs, names |-> {} ] >>
                     ELSE << >>)
                  \o (IF Cardinality(patient_names) > 1
                        THEN << [ text |-> "Inconsistent patient names found",
                                  listed |-> << >>, names |-> patient_names ] >>
                        ELSE << >>)
    IN  IF errors = << >> THEN Raise("ValidationError")
        ELSE Return([ is_valid |-> FALSE, errors |-> errors ])

\* the confidences of DocumentProcessor's decisions, in hundredths
RejectConfidence == 90

ApproveConfidence == 95

\* a plausible slip: the placeholder approval is reached whatever the validation
MakeClaimDecision_Approves(documents, v) ==
    [ status |-> "approved", reason |-> "All required documents present and validated",
      listed |-> << >>, confidence |-> ApproveConfidence ]

\* DocumentProcessor._make_claim_decision
MakeClaimDecision(documents, v) ==
    IF ~ v.is_valid
      THEN [ status |-> "rejected", reason |-> "Invalid claim", listed |-> v.errors,
             confidence |-> RejectConfidence ]
      ELSE [ status |-> "approved",
             reason |-> "All required documents present and validated",
             listed |-> << >>, confidence |-> ApproveConfidence ]

\* validation.model_dump(): each field with the Python type of its value
ModelDump(v) ==
    [ is_valid |-> [ py |-> "bool", v |-> v.is_valid ],
      errors |-> [ py |-> "list", v |-> v.errors ] ]

\* ClaimResponse(...): validation is a Dict[str, List[str]]
ClaimResponseInit(documents, dump, d) ==
    IF \A k \in DOMAIN dump : dump[k].py = "list"
      THEN Return([ documents |-> documents, validation |-> dump, decision |-> d ])
      ELSE Raise("ValidationError")

\* ProcessedClaim(...): the metadata argument is no field of the model
ProcessedClaimInit(documents, v, d) ==
    Return([ documents |-> documents, validation |-> v, decision |-> d ])

\* step 3 of both entry points
Validate ==
    /\ phase = "validate"
    /\ LET v == IF entry = "CP"
                  THEN ValidateClaim(DocsOf(processed), IterationOrder(requiredOrder, 1))
                  ELSE DPValidateClaim(DocsOf(processed))
       IN  IF v.status = "ok"
             THEN validation' = v.value /\ phase' = "decide" /\ UNCHANGED raisedError
             ELSE raisedError' = v.error /\ phase' = "raised" /\ UNCHANGED validation
    /\ UNCHANGED << entry, files, taskPc, clsTrace, classified, taskResult, completion,
                    gathered, procIdx, processed, agentTrace, decision, response,
                    parseVars, agentVars, ruleVars, fnVars,
                    requiredOrder >>

\* step 4 of both entry points
Decide ==
    /\ phase = "decide"
    /\ decision' = IF entry = "CP" THEN MakeDecision(DocsOf(processed), validation)
                   ELSE MakeClaimDecision(DocsOf(processed), validation)
    /\ phase' = "respond"
    /\ UNCHANGED << entry, files, taskPc, clsTrace, classified, taskResult, completion,
                    gathered, procIdx, processed, agentTrace, validation, response,
                    raisedError, parseVars, agentVars, ruleVars, fnVars,
                    requiredOrder >>

\* the return statement: building the result object can itself fail
Respond ==
    /\ phase = "respond"
    /\ LET r == IF entry = "CP"
                  THEN ProcessedClaimInit(DocsOf(processed), validation, decision)
                  ELSE ClaimResponseInit(DocsOf(processed), ModelDump(validation), decision)
       IN  IF r.status = "ok"
             THEN response' = r.value /\ phase' = "returned" /\ UNCHANGED raisedError
             ELSE raisedError' = r.error /\ phase' = "raised" /\ UNCHANGED response
    /\ UNCHANGED << entry, files, taskPc, clsTrace, classified, taskResult, completion,
                    gathered, procIdx, processed, agentTrace, validation, decision,
                    parseVars, agentVars, ruleVars, fnVars,
                    requiredOrder >>

-----------------------------------------------------------------------------
(* the pipeline *)

FileLists == UNION { [ 1..n -> Ext ] : n \in 1..MaxDocs }

NoCall == [ kind |-> "none" ]

\* the pipeline before a request with the file list fs
PipelineStart(e, fs, ph) ==
    /\ entry = e
    /\ files = fs
    /\ phase = ph
    /\ taskPc = [ i \in DOMAIN fs |-> "none" ]
    /\ clsTrace = [ i \in DOMAIN fs |-> "none" ]
    /\ classified = [ i \in DOMAIN fs |-> NoType ]
    /\ taskResult = [ i \in DOMAIN fs |-> NoValue ]
    /\ completion = << >>
    /\ gathered = << >>
    /\ procIdx = 0
    /\ processed = << >>
    /\ agentTrace = [ i \in DOMAIN fs |-> NoValue ]
    /\ validation = NoValue
    /\ decision = NoValue
    /\ response = NoValue
    /\ raisedError = Null

\* no request in flight
PipelineIdle == PipelineStart("CP", << >>, "idle") /\ requiredOrder = << BILL, ID_CARD >>

\* no direct call of the validator or of the decision rule
RulesIdle == vDocs = << >> /\ vCalls = << >> /\ dIn = NoValue /\ dOut = NoValue

\* no direct call of _parse_date
DateIdle == dateAgent = NoType /\ dateIn = NoValue /\ dateOut = NoValue

\* no direct call of a response parser
RespIdle == respAgent = NoType /\ respText = << >> /\ respOut = NoValue

\* no classify_document call on its own
ClsIdle ==
    /\ clsPc = "idle" /\ clsExt = "pdf" /\ clsTextLen = -1 /\ clsPromptLen = -1
    /\ clsExtractions = 0 /\ clsBackendCalls = 0
    /\ clsAnswer = NoValue /\ clsResult = NoType

\* no request at the /process-claim endpoint
EpIdle ==
    epPc = "idle" /\ epTempDir = "none" /\ epSaved = 0 /\ epPath = "none" /\ epStatus = 0

\* no helper function is run on its own
FnIdle == DateIdle /\ RespIdle /\ ClsIdle /\ EpIdle

Init ==
    /\ \E e \in { "CP", "DP" } : \E fs \in FileLists :
         /\ PipelineStart(e, fs, "start")
         /\ requiredOrder \in IF e = "CP" THEN RequiredOrders ELSE { DPRequired }
    /\ RulesIdle
    /\ FnIdle
    /\ label = << >>
    /\ parsedType = Pending
    /\ call = NoCall
    /\ outcome = NoValue

Next ==
    \/ StartClassify
    \/ \E saved \in SUBSET Docs : SaveUploadedFiles(saved)
    \/ \E i \in Docs : \E textOutcome \in { "ok", "error" } : TaskExtractText(i, textOutcome)
    \/ \E i \in Docs : \E llmOutcome \in ClassifierLlmOutcomes : TaskLlmReturn(i, llmOutcome)
    \/ Gather
    \/ ProcessDocument
    \/ ProcessReturn
    \/ Collect
    \/ Validate
    \/ Decide
    \/ Respond

Spec == Init /\ [][Next]_vars

-----------------------------------------------------------------------------
(* _parse_classification_response on its own *)

\* the strings of test_parse_classification_response
S_BILL_padded == << " ", " ", "B", "I", "L", "L", " ", " " >>

LabelAlphabet == { "i", "d", "I", "D", "l", "a", "b", " ", "_", "\n" }

\* the backend's possible answers: every short string over the alphabet, the
\* keys of the table, and the keys padded and in other spellings
LabelInputs ==
    UNION { [ 1..n -> LabelAlphabet ] : n \in 0..MaxLabelLen }
    \cup DOMAIN type_mapping
    \cup { << " " >> \o k \o << "\n" >> : k \in DOMAIN type_mapping }
    \cup { S_BILL_padded, S_unknown, S_invalid,
           << "L", "a", "b", " ", "R", "e", "p", "o", "r", "t" >>,
           << "i", "d", " ", " ", "c", "a", "r", "d" >>,
           << "i", "d", "-", "c", "a", "r", "d" >>,
           << "b", "i", "l", "l", "s" >>,
           << "a", " ", "b", "i", "l", "l" >>,
           << "b", "i", "l", "l", "." >> }

ParseInit ==
    /\ PipelineIdle
    /\ RulesIdle
    /\ FnIdle
    /\ label \in LabelInputs
    /\ parsedType = Pending
    /\ call = NoCall
    /\ outcome = NoValue

ParseLabel ==
    /\ parsedType = Pending
    /\ parsedType' = ParseClassificationResponse(label)
    /\ UNCHANGED << label, pipelineVars, agentVars, ruleVars, fnVars >>

ParseNext == ParseLabel

SpecParse == ParseInit /\ [][ParseNext]_vars

-----------------------------------------------------------------------------
(* one call of an extraction agent's process() on its own *)

\* every call: the agent, the argument (the text the signature asks for, or the
\* Path both handlers pass), what the file holds, what the patterns find in it
\* and what the backend would answer
AgentCalls ==
    UNION { UNION { UNION { UNION { UNION {
      { [ kind |-> "call", type |-> t, arg |-> a, ext |-> x, pdf |-> pdf, det |-> det,
          llm |-> llm ] :
        llm \in BackendChoices(t, a, x, pdf, det) } :
        det \in RegexChoices(t, a, x, pdf) } :
        pdf \in PdfChoices(t, a, x) } :
        x \in Ext } :
        a \in ArgKinds } :
        t \in Agents }

AgentInit ==
    /\ PipelineIdle
    /\ RulesIdle
    /\ FnIdle
    /\ label = << >>
    /\ parsedType = Pending
    /\ call \in AgentCalls
    /\ outcome = NoValue

\* await agent.process(...)
AgentRun ==
    /\ outcome = NoValue
    /\ outcome' = [ kind |-> "done",
                    backendCalls |-> BackendCalls(call.type, call.arg, call.ext, call.pdf,
                                                  call.det),
                    extracted |-> Extract(call.type, call.arg, call.ext, call.pdf,
                                          call.det, call.llm),
                    result |-> AgentProcess(call.type, call.arg, call.ext, call.pdf,
                                            call.det, call.llm) ]
    /\ UNCHANGED << call, pipelineVars, parseVars, ruleVars, fnVars >>

AgentNext == AgentRun

SpecAgent == AgentInit /\ [][AgentNext]_vars

-----------------------------------------------------------------------------
(* ClaimProcessor._validate_claim and _make_decision on their own *)

\* instances of the document models: three bills, a discharge summary and an
\* insurance card
RuleModels ==
    { ModelInit(BILL, [ hospital_name |-> HospitalName, total_amount |-> b[2],
                        date_of_service |-> IsoDate, patient_name |-> b[1] ]).value :
        b \in { << "John Doe", 250000 >>, << "Jon Doe", 1000000 >>,
                << "John Doe", 1000001 >> } }
    \cup { ModelInit(DISCHARGE_SUMMARY,
                     [ patient_name |-> "Jon Doe", admission_date |-> IsoDate,
                       discharge_date |-> IsoDate, diagnosis |-> "v" ]).value,
           ModelInit(ID_CARD,
                     [ insurance_provider |-> "v", policy_number |-> "v",
                       member_id |-> "v", member_name |-> "John Doe" ]).value }

\* the list as process_claim hands it over: ClaimDocument objects
AsClaimDocuments(ms) == [ k \in DOMAIN ms |-> ClaimDocumentParse(ms[k]).value ]

\* the list a caller holding the agents' models hands over
AsModels(ms) == [ k \in DOMAIN ms |-> [ wrapper |-> ModelOf(ms[k]["type"]), root |-> ms[k] ] ]

RuleDocLists ==
    UNION { { AsClaimDocuments(ms), AsModels(ms) } :
            ms \in UNION { [ 1..n -> RuleModels ] : n \in 0..MaxRuleDocs } }

\* a discrepancy entry as _validate_claim builds it
NameMismatch ==
    [ field |-> "patient_name", message |-> "Patient name mismatch across documents",
      details |-> ("medical bill" :> "John Doe") @@ ("discharge summary" :> "Jon Doe") ]

\* ClaimValidation objects a caller of _make_decision can hold
DecisionInputs ==
    { [ missing_documents |-> m, discrepancies |-> d, is_valid |-> IsValid(m, d) ] :
        m \in { << >>, << "medical bill" >>, << "insurance ID card", "medical bill" >> },
        d \in { << >>, << NameMismatch >> } }

RulesInit ==
    /\ PipelineStart("CP", << >>, "idle")
    /\ requiredOrder \in RequiredOrders
    /\ vDocs \in RuleDocLists
    /\ FnIdle
    /\ vCalls = << >>
    /\ dIn = NoValue
    /\ dOut = NoValue
    /\ label = << >>
    /\ parsedType = Pending
    /\ call = NoCall
    /\ outcome = NoValue

\* validation = self._validate_claim(documents): nothing but locals is assigned
CallValidate ==
    /\ Len(vCalls) < MaxCalls
    /\ vCalls' = Append(vCalls,
                        ValidateClaim(vDocs, IterationOrder(requiredOrder, Len(vCalls) + 1)).value)
    /\ UNCHANGED << vDocs, dIn, dOut, pipelineVars, parseVars, agentVars, fnVars >>

\* decision = self._make_decision(documents, v)
CallDecide(v) ==
    /\ dOut = NoValue
    /\ dIn' = v
    /\ dOut' = MakeDecision(vDocs, v)
    /\ UNCHANGED << vDocs, vCalls, pipelineVars, parseVars, agentVars, fnVars >>

RulesNext ==
    \/ CallValidate
    \/ \E v \in DecisionInputs \cup { ValidateClaim(vDocs, requiredOrder).value } : CallDecide(v)

SpecRules == RulesInit /\ [][RulesNext]_vars

-----------------------------------------------------------------------------
(* _parse_date of the extraction agents on its own *)

\* A date string is written as its three numeric fields, its separator and
\* whether blanks surround it; fields below 100 are written with two digits,
\* the others with four.  The other values of this shape are the empty string,
\* a text that is no date, None and a datetime.date object.
DateValue(k, a, b, c, sep, pad) ==
    [ kind |-> k, a |-> a, b |-> b, c |-> c, sep |-> sep, pad |-> pad ]

DateString(a, b, c, sep, pad) == DateValue("num", a, b, c, sep, pad)

IsoString(y, m, d) == DateString(y, m, d, "-", FALSE)

DateObject(y, m, d) == DateValue("date", y, m, d, "", FALSE)

EmptyString == DateValue("empty", 0, 0, 0, "", FALSE)

NotADate(pad) == DateValue("text", 0, 0, 0, "", pad)

PyNone == DateValue("None", 0, 0, 0, "", FALSE)

\* date_str.strip()
StripDate(s) == [ s EXCEPT !.pad = FALSE ]

\* a strptime format: its three directives and the separator between them
DateFormat(d1, d2, d3, sep) == [ order |-> << d1, d2, d3 >>, sep |-> sep ]

F_Ymd_dash  == DateFormat("Y", "m", "d", "-")
F_mdY_slash == DateFormat("m", "d", "Y", "/")
F_mdY_dash  == DateFormat("m", "d", "Y", "-")
F_dmY_slash == DateFormat("d", "m", "Y", "/")
F_dmY_dash  == DateFormat("d", "m", "Y", "-")
F_Ymd_slash == DateFormat("Y", "m", "d", "/")
F_mdy_slash == DateFormat("m", "d", "y", "/")
F_mdy_dash  == DateFormat("m", "d", "y", "-")
F_dmy_slash == DateFormat("d", "m", "y", "/")
F_dmy_dash  == DateFormat("d", "m", "y", "-")
F_bdY       == DateFormat("b", "d", "Y", ", ")
F_BdY       == DateFormat("B", "d", "Y", ", ")

\* the formats each _parse_date tries, in its order
date_formats(t) ==
    CASE t = BILL -> << F_Ymd_dash, F_mdY_slash, F_mdY_dash, F_dmY_slash, F_dmY_dash >>
      [] t = DISCHARGE_SUMMARY -> << F_Ymd_dash >>
      [] t = ID_CARD ->
           << F_Ymd_dash, F_mdY_slash, F_mdY_dash, F_dmY_slash, F_dmY_dash,
              F_mdy_slash, F_mdy_dash, F_Ymd_slash, F_bdY, F_BdY >>
      [] t = PRESCRIPTION ->
           << F_Ymd_dash, F_mdY_slash, F_mdY_dash, F_dmY_slash, F_dmY_dash,
              F_Ymd_slash, F_bdY, F_BdY >>
      [] t = LAB_REPORT ->
           << F_Ymd_dash, F_mdY_slash, F_mdY_dash, F_dmY_slash, F_dmY_dash,
              F_Ymd_slash, F_bdY, F_BdY, F_mdy_slash, F_mdy_dash, F_dmy_slash,
              F_dmy_dash >>

\* whether a numeric field can be read by a directive
DirectiveFits(dir, v) ==
    CASE dir = "Y" -> v >= 1000
      [] dir = "y" -> v >= 0 /\ v < 100
      [] dir = "m" -> v >= 1 /\ v <= 12
      [] dir = "d" -> v >= 1 /\ v <= 31
      [] OTHER -> FALSE                      \* a month name

IsLeap(y) == y % 4 = 0 /\ (y % 100 # 0 \/ y % 400 = 0)

DaysIn(m, y) ==
    IF m \in { 4, 6, 9, 11 } THEN 30
    ELSE IF m = 2 THEN (IF IsLeap(y) THEN 29 ELSE 28)
    ELSE 31

\* the field of s that the directive dir of fmt reads (0 when fmt has no dir)
FieldOf(fmt, s, dir) ==
    LET vals == << s.a, s.b, s.c >>
        at == { k \in 1..3 : fmt.order[k] = dir }
    IN  IF at = {} THEN 0 ELSE vals[CHOOSE k \in at : TRUE]

\* the year a format reads: %y takes 00..68 as 20xx and 69..99 as 19xx
YearOf(fmt, s) ==
    IF \E k \in 1..3 : fmt.order[k] = "Y" THEN FieldOf(fmt, s, "Y")
    ELSE IF FieldOf(fmt, s, "y") < 69 THEN 2000 + FieldOf(fmt, s, "y")
    ELSE 1900 + FieldOf(fmt, s, "y")

\* datetime.strptime(s, fmt) succeeds: the whole string has the format's shape
\* and names a day of the calendar
StrptimeOk(s, fmt) ==
    /\ s.kind = "num" /\ ~ s.pad
    /\ s.sep = fmt.sep
    /\ LET vals == << s.a, s.b, s.c >>
       IN  \A k \in 1..3 : DirectiveFits(fmt.order[k], vals[k])
    /\ FieldOf(fmt, s, "d") <= DaysIn(FieldOf(fmt, s, "m"), YearOf(fmt, s))

\* the first format of the list that reads s (0 when none does)
FirstFormat(fmts, s) ==
    LET ok == { k \in 1..Len(fmts) : StrptimeOk(s, fmts[k]) }
    IN  IF ok = {} THEN 0 ELSE SetMin(ok)

\* dt.strftime('%Y-%m-%d')
Strftime(fmt, s) == IsoString(YearOf(fmt, s), FieldOf(fmt, s, "m"), FieldOf(fmt, s, "d"))

\* BillAgent._parse_date
BillParseDate(s) ==
    IF s.kind = "empty" THEN EmptyString
    ELSE LET x == StripDate(s)
             k == FirstFormat(date_formats(BILL), x)
         IN  IF k = 0 THEN x ELSE Strftime(date_formats(BILL)[k], x)

\* DischargeAgent._parse_date: one format, no strip, a date object or None
DischargeParseDate(s) ==
    IF s.kind = "empty" THEN PyNone
    ELSE IF StrptimeOk(s, F_Ymd_dash)
      THEN DateObject(FieldOf(F_Ymd_dash, s, "Y"), FieldOf(F_Ymd_dash, s, "m"),
                      FieldOf(F_Ymd_dash, s, "d"))
      ELSE PyNone

\* _parse_date of the id-card, prescription and lab-report agents
OtherParseDate(t, s) ==
    IF s.kind = "empty" THEN PyNone
    ELSE LET x == StripDate(s)
             k == FirstFormat(date_formats(t), x)
         IN  IF k = 0 THEN PyNone ELSE Strftime(date_formats(t)[k], x)

ParseDate(t, s) ==
    IF t = BILL THEN BillParseDate(s)
    ELSE IF t = DISCHARGE_SUMMARY THEN DischargeParseDate(s)
    ELSE OtherParseDate(t, s)

\* the strings the patterns and the backend can hand to _parse_date
DateParts == { 4, 10, 13, 31, 2024 }

DateInputs ==
    { DateString(a, b, c, sep, pad) :
        a \in DateParts, b \in DateParts, c \in DateParts,
        sep \in { "-", "/" }, pad \in BOOLEAN }
    \cup { EmptyString, NotADate(FALSE), NotADate(TRUE) }

DateInit ==
    /\ PipelineIdle
    /\ RulesIdle
    /\ label = << >>
    /\ parsedType = Pending
    /\ call = NoCall
    /\ outcome = NoValue
    /\ RespIdle /\ ClsIdle /\ EpIdle
    /\ dateAgent \in Agents
    /\ dateIn \in DateInputs
    /\ dateOut = NoValue

\* self._parse_date(date_str)
ParseDateCall ==
    /\ dateOut = NoValue
    /\ dateOut' = ParseDate(dateAgent, dateIn)
    /\ UNCHANGED << dateAgent, dateIn, pipelineVars, parseVars, agentVars, ruleVars,
                    respVars, clsVars, epVars >>

DateNext == ParseDateCall

SpecDate == DateInit /\ [][DateNext]_vars

-----------------------------------------------------------------------------
(* the parsers of the backend's answer on their own *)

\* A backend answer is a sequence of characters: the two braces, "k" for a
\* member of a JSON object and "x" for any other text.

\* response.find(ch): the position of the first ch, counted from 0, or -1
Find(resp, ch) ==
    LET at == { k \in 1..Len(resp) : resp[k] = ch }
    IN  IF at = {} THEN -1 ELSE SetMin(at) - 1

\* response.rfind(ch)
RFind(resp, ch) ==
    LET at == { k \in 1..Len(resp) : resp[k] = ch }
    IN  IF at = {} THEN -1 ELSE SetMax(at) - 1

\* response[i:j]
Slice(resp, i, j) == SubSeq(resp, i + 1, j)

\* json.loads(json_str): an object is a pair of braces around members
JsonLoads(json_str) ==
    IF /\ Len(json_str) >= 2
       /\ json_str[1] = "{" /\ json_str[Len(json_str)] = "}"
       /\ \A k \in 2..(Len(json_str) - 1) : json_str[k] = "k"
      THEN Return(IF Len(json_str) > 2 THEN ("k" :> "v") ELSE EmptyDict)
      ELSE Raise("JSONDecodeError")

\* BillAgent._parse_llm_response
BillParseLlmResponse(resp) ==
    LET json_start == Find(resp, "{")
        json_end == RFind(resp, "}") + 1
    IN  IF json_start >= 0 /\ json_end > json_start
          THEN LET data == JsonLoads(Slice(resp, json_start, json_end))
               IN  IF data.status = "ok" THEN data ELSE Return(EmptyDict)
          ELSE Return(EmptyDict)

\* DischargeAgent._parse_extraction_response
DischargeParseExtractionResponse(resp) ==
    LET json_start == Find(resp, "{")
        json_end == RFind(resp, "}") + 1
    IN  IF json_start = -1 \/ json_end = 0 THEN Raise("AgentError")
        ELSE LET data == JsonLoads(Slice(resp, json_start, json_end))
             IN  IF data.status = "ok"
                   THEN Return(data.value @@ [ patient_name |-> Null, diagnosis |-> Null,
                                               procedures |-> "[]", medications |-> "[]" ])
                   ELSE Raise("AgentError")

\* the parser each agent's _extract_with_llm applies to the answer
ParseResponseText(t, resp) ==
    IF t = BILL THEN BillParseLlmResponse(resp)
    ELSE IF t = DISCHARGE_SUMMARY THEN DischargeParseExtractionResponse(resp)
    ELSE Raise("AttributeError")             \* no _parse_llm_response

ResponseAlphabet == { "{", "}", "k", "x" }

ResponseInputs == UNION { [ 1..n -> ResponseAlphabet ] : n \in 0..MaxRespLen }

RespInit ==
    /\ PipelineIdle
    /\ RulesIdle
    /\ DateIdle /\ ClsIdle /\ EpIdle
    /\ label = << >>
    /\ parsedType = Pending
    /\ call = NoCall
    /\ outcome = NoValue
    /\ respAgent \in Agents
    /\ respText \in ResponseInputs
    /\ respOut = NoValue

\* the parse of the answer inside _extract_with_llm
ParseResponseCall ==
    /\ respOut = NoValue
    /\ respOut' = ParseResponseText(respAgent, respText)
    /\ UNCHANGED << respAgent, respText, pipelineVars, parseVars, agentVars, ruleVars,
                    dateVars, clsVars, epVars >>

RespNext == ParseResponseCall

SpecResponse == RespInit /\ [][RespNext]_vars

-----------------------------------------------------------------------------
(* ClassifierAgent.classify_document on its own *)

\* the classification prompt holds the first 2000 characters of the text
PromptLimit == 2000

\* a plausible slip: the whole text goes into the prompt
PromptText_Whole(len) == len

\* the length of text[:2000]
PromptText(len) == IF len < PromptLimit THEN len ELSE PromptLimit

\* lengths of the text a file can hold
TextLengths == { 0, 1, 1999, 2000, 2001, 4000 }

ClassifyInit ==
    /\ PipelineIdle
    /\ RulesIdle
    /\ DateIdle /\ RespIdle /\ EpIdle
    /\ label = << >>
    /\ parsedType = Pending
    /\ call = NoCall
    /\ outcome = NoValue
    /\ clsPc = "start"
    /\ clsExt \in Ext
    /\ clsTextLen = -1
    /\ clsPromptLen = -1
    /\ clsExtractions = 0
    /\ clsBackendCalls = 0
    /\ clsAnswer = NoValue
    /\ clsResult = NoType

\* text = await self._extract_text(file_path); with the text in hand the prompt
\* is built and _call_llm is awaited; an exception ends in the handler
ClsExtractText(textOutcome, len) ==
    /\ clsPc = "start"
    /\ textOutcome \in TextExtractionOutcomes(clsExt)
    /\ clsExtractions' = clsExtractions + 1
    /\ LET r == ClassifyText(textOutcome)
       IN  IF r = NoValue
             THEN /\ clsTextLen' = len
                  /\ clsPromptLen' = PromptText(len)
                  /\ clsBackendCalls' = clsBackendCalls + 1
                  /\ clsPc' = "llm"
                  /\ UNCHANGED clsResult
             ELSE /\ clsResult' = IF r.status = "ok" THEN r.value ELSE Raised
                  /\ clsPc' = "done"
                  /\ UNCHANGED << clsTextLen, clsPromptLen, clsBackendCalls >>
    /\ UNCHANGED << clsExt, clsAnswer, pipelineVars, parseVars, agentVars, ruleVars,
                    dateVars, respVars, epVars >>

\* the backend answers or fails; the answer is parsed, a failure is handled
ClsLlmReturn(llmOutcome) ==
    /\ clsPc = "llm"
    /\ clsAnswer' = llmOutcome
    /\ clsResult' = LET r == ClassifyResponse(llmOutcome)
                    IN  IF r.status = "ok" THEN r.value ELSE Raised
    /\ clsPc' = "done"
    /\ UNCHANGED << clsExt, clsTextLen, clsPromptLen, clsExtractions, clsBackendCalls,
                    pipelineVars, parseVars, agentVars, ruleVars, dateVars, respVars,
                    epVars >>

ClassifyNext ==
    \/ \E textOutcome \in { "ok", "error" } : \E len \in TextLengths :
         ClsExtractText(textOutcome, len)
    \/ \E llmOutcome \in ClassifierLlmOutcomes : ClsLlmReturn(llmOutcome)

SpecClassify == ClassifyInit /\ [][ClassifyNext]_vars

-----------------------------------------------------------------------------
(* the /process-claim endpoint around ClaimProcessor.process_claim *)

\* the uploads of a request: any list of files, the empty one included
UploadLists == FileLists \cup { << >> }

EndpointInit ==
    /\ \E fs \in UploadLists : PipelineStart("CP", fs, "idle")
    /\ requiredOrder \in RequiredOrders
    /\ RulesIdle
    /\ DateIdle /\ RespIdle /\ ClsIdle
    /\ label = << >>
    /\ parsedType = Pending
    /\ call = NoCall
    /\ outcome = NoValue
    /\ epPc = "start"
    /\ epTempDir = "none"
    /\ epSaved = 0
    /\ epPath = "none"
    /\ epStatus = 0

\* if not files: HTTPException(400); otherwise temp_dir.mkdir()
EpReceive ==
    /\ epPc = "start"
    /\ IF files = << >>
         THEN epStatus' = 400 /\ epPc' = "done" /\ UNCHANGED epTempDir
         ELSE epTempDir' = "exists" /\ epPc' = "saving" /\ UNCHANGED epStatus
    /\ UNCHANGED << epSaved, epPath, pipelineVars, parseVars, agentVars, ruleVars,
                    dateVars, respVars, clsVars >>

\* one iteration of the saving loop: the file is written, or open or
\* copyfileobj raises and the except clause is entered
EpSaveFile(written) ==
    /\ epPc = "saving" /\ epSaved < Len(files)
    /\ IF written
         THEN epSaved' = epSaved + 1 /\ UNCHANGED << epPc, epPath >>
         ELSE epPath' = "except" /\ epPc' = "finally" /\ UNCHANGED epSaved
    /\ UNCHANGED << epTempDir, epStatus, pipelineVars, parseVars, agentVars, ruleVars,
                    dateVars, respVars, clsVars >>

\* every file is saved: await processor.process_claim(file_paths)
EpCallProcessor ==
    /\ epPc = "saving" /\ epSaved = Len(files)
    /\ phase' = "start"
    /\ epPc' = "processing"
    /\ UNCHANGED << entry, files, taskPc, clsTrace, classified, taskResult, completion,
                    gathered, procIdx, processed, agentTrace, validation, decision,
                    response, raisedError, requiredOrder, epTempDir, epSaved, epPath,
                    epStatus, parseVars, agentVars, ruleVars, dateVars, respVars,
                    clsVars >>

\* process_claim returned: return result
EpReturn ==
    /\ epPc = "processing" /\ phase = "returned"
    /\ epPath' = "return"
    /\ epPc' = "finally"
    /\ UNCHANGED << epTempDir, epSaved, epStatus, pipelineVars, parseVars, agentVars,
                    ruleVars, dateVars, respVars, clsVars >>

\* process_claim raised: except Exception raises HTTPException(500)
EpExcept ==
    /\ epPc = "processing" /\ phase = "raised"
    /\ epPath' = "except"
    /\ epPc' = "finally"
    /\ UNCHANGED << epTempDir, epSaved, epStatus, pipelineVars, parseVars, agentVars,
                    ruleVars, dateVars, respVars, clsVars >>

\* a plausible slip: the cleanup sits at the end of the try block
CleanupRuns_OnSuccessOnly(path) == path = "return"

\* the cleanup is in the finally clause: it runs however the try block was left
CleanupRuns(path) == TRUE

\* finally: shutil.rmtree(temp_dir, ignore_errors=True), then the request is
\* answered with the result or with the HTTPException
EpFinally ==
    /\ epPc = "finally"
    /\ epTempDir' = IF CleanupRuns(epPath) THEN "removed" ELSE epTempDir
    /\ epStatus' = IF epPath = "return" THEN 200 ELSE 500
    /\ epPc' = "done"
    /\ UNCHANGED << epSaved, epPath, pipelineVars, parseVars, agentVars, ruleVars,
                    dateVars, respVars, clsVars >>

EndpointNext ==
    \/ EpReceive
    \/ \E written \in BOOLEAN : EpSaveFile(written)
    \/ EpCallProcessor
    \/ StartClassify
    \/ \E i \in Docs : \E textOutcome \in { "ok", "error" } : TaskExtractText(i, textOutcome)
    \/ \E i \in Docs : \E llmOutcome \in ClassifierLlmOutcomes : TaskLlmReturn(i, llmOutcome)
    \/ Gather
    \/ ProcessDocument
    \/ ProcessReturn
    \/ Validate
    \/ Decide
    \/ Respond
    \/ EpReturn
    \/ EpExcept
    \/ EpFinally

SpecEndpoint == EndpointInit /\ [][EndpointNext]_vars

-----------------------------------------------------------------------------
(* the properties *)

IsCP == entry = "CP"

AgentRaised(i) == agentTrace[i].kind = "ran" /\ agentTrace[i].status = "raise"

HasOutcome(i) == \E k \in 1..Len(processed) : processed[k].src = i

\* C1: when an extraction agent raises for a document inside
\* ClaimProcessor._process_documents, the exception becomes that document's
\* outcome in the list and process_claim does not raise.
C1_FailureCaptured ==
    IsCP => \A i \in Docs : AgentRaised(i) => phase # "raised" /\ HasOutcome(i)

\* C2: ClaimProcessor.process_claim returns one outcome per submitted document:
\* for N files the returned document list has length N.
C2_OneOutcomePerDocument ==
    IsCP /\ phase = "returned" => Len(response.documents) = Len(files)

\* C3: the outcome list keeps the input order whatever order the tasks finished
\* in: the documents of the list come from files of strictly increasing
\* position, the result of gather lists the tasks by position, and the
\* returned list is that list.
C3_InputOrderPreserved ==
    /\ \A j, k \in 1..Len(processed) : j < k => processed[j].src < processed[k].src
    /\ \A j, k \in 1..Len(gathered) : j < k => gathered[j].src < gathered[k].src
    /\ phase = "returned" => response.documents = DocsOf(processed)

\* C3's case: process_claim returned two documents whose tasks finished in the
\* reverse of the input order
C3_Witness ==
    /\ IsCP /\ phase = "returned"
    /\ Len(response.documents) = 2
    /\ completion = << 2, 1 >>

\* C4: ClaimProcessor.process_claim never ends with an exception.
C4_NeverRaises == IsCP => phase # "raised" /\ raisedError = Null

AllTasksSettled == \A i \in TaskIds : taskPc[i] = "done"

\* C5: validation and decision start only after every per-document task has
\* settled: once _validate_claim is entered no task is waiting or running.
C5_ValidationAfterAllSettled ==
    (phase \in { "validate", "decide", "respond", "returned" } \/ validation # NoValue)
      => AllTasksSettled

\* C5's case: validation is entered after two tasks that finished out of order
C5_Witness ==
    /\ phase = "validate"
    /\ completion = << 2, 1 >>
    /\ AllTasksSettled

C7_ClassifyNeverRaises ==
    \A i \in Docs :
      /\ classified[i] # Raised
      /\ classified[i] \in DocumentType \cup { NoType }
      /\ clsTrace[i] \in { "text failed", "llm failed" } => classified[i] = UNKNOWN
      /\ taskPc[i] = "done" => classified[i] \in DocumentType

\* C7's case: the backend call of a document failed and process_claim still
\* returned
C7_Witness ==
    /\ IsCP /\ phase = "returned"
    /\ \E i \in Docs : clsTrace[i] = "llm failed" /\ classified[i] = UNKNOWN
    /\ \E i \in Docs : clsTrace[i] = "text failed" /\ classified[i] = UNKNOWN

SameIgnoringCase(a, b) ==
    Len(a) = Len(b) /\ \A i \in 1..Len(a) : LowerChar(a[i]) = LowerChar(b[i])

\* the label is the table key k, in any case, between runs of whitespace
Matches(l, k) ==
    \E i \in 1..(Len(l) + 1) : \E j \in 0..Len(l) :
      /\ \A n \in 1..(i - 1) : l[n] \in Whitespace
      /\ \A n \in (j + 1)..Len(l) : l[n] \in Whitespace
      /\ SameIgnoringCase(SubSeq(l, i, j), k)

Parsed == parsedType # Pending

\* C8: _parse_classification_response is total: a label that is a key of the
\* synonym table once trimmed and lowercased gives that key's type ('bill' ->
\* BILL; 'discharge', 'discharge summary', 'discharge_summary' ->
\* DISCHARGE_SUMMARY; 'id card' -> ID_CARD), every other label, 'unknown' and
\* 'invalid' among them, gives UNKNOWN.
C8_ParseTotal ==
    Parsed =>
      /\ parsedType \in DocumentType
      /\ \A k \in DOMAIN type_mapping : Matches(label, k) => parsedType = type_mapping[k]
      /\ (\A k \in DOMAIN type_mapping : ~ Matches(label, k)) => parsedType = UNKNOWN
      /\ label \in { << "b", "i", "l", "l" >>, S_BILL_padded } => parsedType = BILL
      /\ label \in { << "d", "i", "s", "c", "h", "a", "r", "g", "e" >>,
                     S_discharge_sp_summary, S_discharge_summary }
           => parsedType = DISCHARGE_SUMMARY
      /\ label = << "i", "d", " ", "c", "a", "r", "d" >> => parsedType = ID_CARD
      /\ label \in { S_unknown, S_invalid } => parsedType = UNKNOWN

\* C8's case: a padded upper-case label was parsed to its type
C8_Witness == Parsed /\ label = S_BILL_padded /\ parsedType = BILL

\* the required fields of each document type as the claim lists them
C9_Required(t) ==
    CASE t = BILL -> { "total_amount", "date_of_service" }
      [] t = DISCHARGE_SUMMARY ->
             { "patient_name", "diagnosis", "admission_date", "discharge_date" }
      [] t = ID_CARD ->
             { "insurance_provider", "policy_number", "member_id", "member_name" }
      [] t = PRESCRIPTION -> { "patient_name", "date_prescribed", "medications" }
      [] t = LAB_REPORT -> { "patient_name", "date_collected", "test_results" }

\* a field that holds a value: not None, and not an empty list
C9_Filled(d, k) ==
    /\ k \in DOMAIN d
    /\ IF k = "total_amount" THEN d[k] \in Int ELSE d[k] \notin { Null, "[]" }

Succeeded == outcome # NoValue /\ outcome.result.status = "ok"

\* C9: an extraction agent returns a record only if every required field of
\* its document type is present and holds a value after both passes.
C9_SuccessHasRequired ==
    Succeeded => \A k \in C9_Required(call.type) : C9_Filled(outcome.result.value, k)

\* C9's case: the bill agent returned a record for a PDF
C9_Witness == Succeeded /\ call.type = BILL /\ call.arg = "path"

\* C10: whenever the fallback pass runs and the backend answers with a record,
\* extract() merges it over the deterministic result: every key of the
\* answer holds the answer's value in the merged record.
C10_FallbackWins ==
    ( /\ outcome # NoValue
      /\ call.type \in { BILL, DISCHARGE_SUMMARY }
      /\ FallbackEntered(call.type, call.arg, call.ext, call.pdf, call.det)
      /\ call.llm.kind = "json"
      /\ AllRequired(call.type, DictUpdate(call.det, call.llm.data)) )
    => /\ outcome.extracted.status = "ok"
       /\ \A k \in DOMAIN call.llm.data : outcome.extracted.value[k] = call.llm.data[k]

Items(seq) == { seq[k] : k \in 1..Len(seq) }

\* the successfully extracted documents of type t among the outcomes
ExtractedOfType(t) ==
    { k \in 1..Len(processed) : processed[k].doc.root["type"] = t }

Validated == IsCP /\ validation # NoValue

\* C11: ClaimProcessor._validate_claim lists 'medical bill' (resp. 'insurance ID
\* card') as missing exactly when no successfully extracted bill (resp. ID
\* card) is among its input, and never lists an optional document type.
C11_MissingListedExactly ==
    Validated =>
      /\ "medical bill" \in Items(validation.missing_documents)
           <=> ExtractedOfType(BILL) = {}
      /\ "insurance ID card" \in Items(validation.missing_documents)
           <=> ExtractedOfType(ID_CARD) = {}
      /\ Items(validation.missing_documents)
           \cap { "discharge summary", "prescription", "lab report" } = {}

\* the distinct non-null patient names the successfully extracted documents carry
ExtractedNames ==
    { processed[k].doc.root["patient_name"] :
        k \in { j \in 1..Len(processed) :
                  /\ "patient_name" \in DOMAIN processed[j].doc.root
                  /\ processed[j].doc.root["patient_name"] # Null } }

\* the patient-name entries a validation result records, with the names each lists
NameEntries ==
    IF IsCP
      THEN { [ names |-> { d.details[t] : t \in DOMAIN d.details } ] :
               d \in { e \in Items(validation.discrepancies) : e.field = "patient_name" } }
      ELSE { [ names |-> e.names ] :
               e \in { x \in Items(validation.errors) : x.names # {} } }

\* C12: validation records exactly one patient_name discrepancy listing the
\* conflicting values when the successful documents (of the same or of
\* different types) carry more than one distinct non-null patient name, and
\* none when all non-null names are equal.
C12_DiscrepancyRecorded ==
    validation # NoValue =>
      IF Cardinality(ExtractedNames) > 1
        THEN NameEntries = { [ names |-> ExtractedNames ] }
        ELSE NameEntries = {}

\* C13: in every ClaimValidation _validate_claim builds, is_valid is true exactly
\* when missing_documents is empty and discrepancies is empty
C13_ValidIffClean ==
    \A k \in 1..Len(vCalls) :
        vCalls[k].is_valid <=>
          (vCalls[k].missing_documents = << >> /\ vCalls[k].discrepancies = << >>)

\* a validation with every required document present and a name mismatch
C13_Witness ==
    /\ Len(vCalls) > 0
    /\ vCalls[1].missing_documents = << >>
    /\ vCalls[1].discrepancies # << >>
    /\ ~ vCalls[1].is_valid

RECURSIVE BillTotal(_)
\* the sum of total_amount over the bills of a document list, in cents
BillTotal(documents) ==
    IF documents = << >> THEN 0
    ELSE (IF Head(documents).root["type"] = BILL THEN Head(documents).root["total_amount"] ELSE 0)
         + BillTotal(Tail(documents))

Decided == IsCP /\ decision # NoValue

\* C14: when the validation lists a missing document, _make_decision rejects,
\* its reason names every missing document, amount_approved is 0 and
\* amount_rejected is the sum of total_amount over the extracted bills
C14_MissingRejects ==
    (Decided /\ validation.missing_documents # << >>) =>
        /\ decision.status = "rejected"
        /\ decision.listed = validation.missing_documents
        /\ decision.amount_approved = 0
        /\ decision.amount_rejected = BillTotal(DocsOf(processed))

DecisionMade == dOut # NoValue

\* C15: with no missing document and no discrepancy, _make_decision approves
\* the sum of the bill totals when that sum is at most 10000.00, and answers
\* pending with both amounts 0 when it is greater
C15_ThresholdDecision ==
    (DecisionMade /\ dIn.missing_documents = << >> /\ dIn.discrepancies = << >>) =>
        IF BillTotal(vDocs) <= AutoApproveLimit
          THEN dOut.status = "approved" /\ dOut.amount_approved = BillTotal(vDocs)
          ELSE dOut.status = "pending" /\ dOut.amount_approved = 0 /\ dOut.amount_rejected = 0

\* C16: when no required document is missing and the discrepancy list is not
\* empty, _make_decision answers pending for manual review with both amounts
\* 0, whatever the total
C16_DiscrepancyPends ==
    (DecisionMade /\ dIn.missing_documents = << >> /\ dIn.discrepancies # << >>) =>
        /\ dOut.status = "pending"
        /\ dOut.reason = "Data discrepancies found, requires manual review"
        /\ dOut.amount_approved = 0
        /\ dOut.amount_rejected = 0

\* a claim within the approval limit held back by a name mismatch
C16_Witness ==
    /\ DecisionMade
    /\ dIn.missing_documents = << >>
    /\ dIn.discrepancies # << >>
    /\ BillTotal(vDocs) > 0
    /\ BillTotal(vDocs) <= AutoApproveLimit
    /\ dOut.status = "pending"

Finished == phase \in { "returned", "raised" }

\* C17: a document whose extraction failed does not influence the outcome: the
\* validation and the decision of the batch are those computed from its
\* successfully extracted documents alone
C17_FailedDocIgnored ==
    (IsCP /\ Finished /\ \E i \in Docs : AgentRaised(i)) =>
        /\ validation = ValidateClaim(DocsOf(processed), requiredOrder).value
        /\ decision = MakeDecision(DocsOf(processed), validation)

\* C18: a document classified UNKNOWN is never handed to an extraction agent
\* and is not among the documents that validation and decision are computed from
C18_UnknownSkipped ==
    \A i \in Docs :
        classified[i] = UNKNOWN => (agentTrace[i] = NoValue /\ ~ HasOutcome(i))

\* a returned claim with an UNKNOWN document next to an extracted bill
C18_Witness ==
    /\ IsCP /\ phase = "returned"
    /\ \E i \in Docs : classified[i] = UNKNOWN
    /\ \E i \in Docs : classified[i] = BILL /\ HasOutcome(i)
    /\ decision # NoValue

\* the returned object mentions document i: as one of its documents, or in a
\* metadata field
Reported(i) ==
    \/ HasOutcome(i)
    \/ ("metadata" \in DOMAIN response /\ i \in response["metadata"])

\* C19: every document classified UNKNOWN is still reported in the returned
\* ProcessedClaim
C19_UnknownReported ==
    (IsCP /\ phase = "returned") =>
        \A i \in Docs : classified[i] = UNKNOWN => Reported(i)

C21_TypeMatchesClassification ==
    IsCP => \A k \in 1..Len(processed) :
               processed[k].doc.root["type"] = classified[processed[k].src]

\* a returned claim holding an extracted bill
C21_Witness ==
    /\ IsCP /\ phase = "returned"
    /\ \E k \in 1..Len(response.documents) : response.documents[k].root["type"] = BILL

\* document i is classified for an agent, document j is still being classified
ClassifiedAhead(i, j) ==
    /\ taskPc[i] = "done" /\ classified[i] \in Agents
    /\ taskPc[j] # "done"

\* C22: the documents are classified and extracted by concurrent per-document
\* tasks: the extraction of a classified document can run while another
\* document is still being classified
C22_ExtractionOverlaps ==
    (IsCP /\ \E i, j \in Docs : ClassifiedAhead(i, j)) => ENABLED ProcessDocument

\* the call got as far as its deterministic pass
PatternsRan == outcome # NoValue /\ RegexRuns(call.type, call.arg, call.ext, call.pdf)

\* C23: BillAgent.extract calls the backend exactly when the deterministic pass
\* did not find both total_amount and date_of_service, and returns the
\* deterministic result untouched when it found both; the other agents call
\* the backend exactly once per extract
C23_BackendCalledWhenDue ==
    PatternsRan =>
        IF call.type = BILL
          THEN /\ outcome.backendCalls = 1 <=> BillNeedsLlm(call.det)
               /\ ~ BillNeedsLlm(call.det) =>
                     (outcome.backendCalls = 0 /\ outcome.extracted = Return(call.det))
          ELSE outcome.backendCalls = 1

DateParsed == dateOut # NoValue

\* the value is the day y-m-d written YYYY-MM-DD
IsDay(v, y, m, d) == v = IsoString(y, m, d) \/ v = DateObject(y, m, d)

\* C24: in every extraction agent _parse_date gives 2024-04-10 for
\* '2024-04-10' and for '04/10/2024' (month first), and hands back a string
\* that matches no format as it is
C24_DateNormalised ==
    DateParsed =>
        /\ dateIn = IsoString(2024, 4, 10) => IsDay(dateOut, 2024, 4, 10)
        /\ dateIn = DateString(4, 10, 2024, "/", FALSE) => IsDay(dateOut, 2024, 4, 10)
        /\ dateIn.kind = "text" => dateOut = dateIn

RespParsed == respOut # NoValue

\* the text from the first opening to the last closing brace of the answer
Braced(resp) == Slice(resp, Find(resp, "{"), RFind(resp, "}") + 1)

\* the answer holds a JSON object between its first "{" and its last "}"
HoldsObject(resp) ==
    /\ Find(resp, "{") >= 0 /\ RFind(resp, "}") > Find(resp, "{")
    /\ JsonLoads(Braced(resp)).status = "ok"

\* C25: an extraction agent's parser reads the object between the first "{"
\* and the last "}" of the backend's answer, whatever surrounds it, and raises
\* when there is no such text or it is no valid JSON
C25_ParseOrRaise ==
    RespParsed =>
        IF HoldsObject(respText)
          THEN /\ respOut.status = "ok"
               /\ \A k \in DOMAIN JsonLoads(Braced(respText)).value :
                     respOut.value[k] = JsonLoads(Braced(respText)).value[k]
          ELSE respOut.status = "raise"

\* C26: classify_document extracts the text of its file exactly once and calls
\* the backend at most once, after the extraction: exactly once when the
\* extraction succeeded, with at most the first 2000 characters of the text in
\* the prompt, and never when the extraction failed
C26_OneExtractionOneCall ==
    /\ clsBackendCalls <= clsExtractions
    /\ clsBackendCalls <= 1
    /\ clsPc = "done" =>
         /\ clsExtractions = 1
         /\ clsBackendCalls = 1 <=> clsTextLen >= 0
         /\ clsBackendCalls = 1 =>
               /\ clsPromptLen <= 2000
               /\ clsPromptLen = IF clsTextLen <= 2000 THEN clsTextLen ELSE 2000
         /\ clsBackendCalls = 0 => clsPromptLen = -1

\* a text longer than the limit was classified with one backend call
C26_Witness ==
    /\ clsPc = "done"
    /\ clsTextLen > 2000
    /\ clsPromptLen = 2000
    /\ clsBackendCalls = 1
    /\ clsResult = BILL

\* C27: in every decision of _make_decision, approved means a validation
\* without missing documents and discrepancies, amount_approved equal to the
\* sum of the bill totals and at most 10000.00, and amount_rejected 0; pending
\* means both amounts 0; rejected means amount_approved 0; the two amounts are
\* never both non-zero
C27_DecisionAmounts ==
    DecisionMade =>
        /\ dOut.status = "approved" =>
              /\ dIn.missing_documents = << >> /\ dIn.discrepancies = << >>
              /\ dOut.amount_approved = BillTotal(vDocs)
              /\ dOut.amount_approved <= 1000000
              /\ dOut.amount_rejected = 0
        /\ dOut.status = "pending" => (dOut.amount_approved = 0 /\ dOut.amount_rejected = 0)
        /\ dOut.status = "rejected" => dOut.amount_approved = 0
        /\ dOut.amount_approved = 0 \/ dOut.amount_rejected = 0

\* the fallback pass of the call ran and the backend answered with a record
FallbackAnswered ==
    /\ outcome # NoValue
    /\ call.type \in { BILL, DISCHARGE_SUMMARY }
    /\ FallbackEntered(call.type, call.arg, call.ext, call.pdf, call.det)
    /\ call.llm.kind = "json"

\* C28: a field the deterministic pass found and the backend's answer does not
\* mention keeps its deterministic value in the merged record
C28_FallbackFrame ==
    (FallbackAnswered /\ AllRequired(call.type, DictUpdate(call.det, call.llm.data))) =>
        /\ outcome.extracted.status = "ok"
        /\ \A k \in DOMAIN call.det \ DOMAIN call.llm.data :
              outcome.extracted.value[k] = call.det[k]

IsDP == entry = "DP"

C30_TempDirRemoved ==
    /\ (epPc = "done" /\ epStatus # 400) => epTempDir = "removed"
    /\ (epPc = "done" /\ epStatus = 400) => epTempDir = "none"
    /\ epTempDir = "exists" => epPc \in { "saving", "processing", "finally" }

\* a request whose process_claim raised: answered with 500, directory removed
C30_Witness ==
    /\ epPc = "done"
    /\ phase = "raised"
    /\ epStatus = 500
    /\ epTempDir = "removed"

=============================================================================
